---- MODULE Spec2Model ----
(***************************************************************************)
(* A model of gitpull (src/src/main.rs): the App state of the project      *)
(* manager, its button handlers (add, update selected, delete selected),   *)
(* its log buffer, its configuration file and the git repositories the     *)
(* update handler works on.                                                *)
(*                                                                         *)
(* Vec indices are 0-based in the source and 1-based here.                 *)
(***************************************************************************)
EXTENDS Integers, Sequences, FiniteSets, TLC

\* ------------------------------------------------------------------ bounds

\* Most log entries appended in the log-only specification.
MaxEntries == 1200
\* Most projects the add handler is allowed to reach in the model.
MaxProjects == 2
\* Most lines the log may hold for a logging handler to be taken (the user
\* clears the editable log area to go on).
MaxLogLines == 1
\* Most commits the origin remote receives (length of the upstream chain).
MaxUpstream == 1

\* ------------------------------------------------------------- log buffer

\* limit_log_buffer: let max_lines = 1000
max_lines == 1000

\* The line break "\n" of the log text.  The log is a sequence of tokens: a
\* token is a line break or the text of one formatted message.
NL == <<"\n">>

\* format!("[ERROR] {}\n", message): the text of the entry, then a line break.
FormatError(message) == << <<"[ERROR]">> \o message, NL >>

\* format!("{}\n", message)
FormatLine(message) == << message, NL >>

\* str::lines().count(): lines are ended by "\n"; a last line without line
\* break counts, an empty last line does not.
lines_len(buf) ==
    Cardinality({i \in 1..Len(buf) : buf[i] = NL})
        + (IF Len(buf) > 0 /\ buf[Len(buf)] # NL THEN 1 ELSE 0)

\* The position of the k-th line break of buf at or after position i
\* (the end of the k-th line counted from i).
RECURSIVE LineEnd(_, _, _)
LineEnd(buf, k, i) ==
    IF buf[i] = NL
    THEN (IF k = 1 THEN i ELSE LineEnd(buf, k - 1, i + 1))
    ELSE LineEnd(buf, k, i + 1)

\* lines[skip_lines..].join("\n"): the text after the first skip lines, the
\* remaining lines separated by "\n", with no "\n" after the last one.
JoinFrom(buf, skip) ==
    LET first == IF skip = 0 THEN 1 ELSE LineEnd(buf, skip, 1) + 1
        last  == IF buf[Len(buf)] = NL THEN Len(buf) - 1 ELSE Len(buf)
    IN  SubSeq(buf, first, last)

limit_log_buffer(buf) ==
    IF lines_len(buf) > max_lines
    THEN JoinFrom(buf, lines_len(buf) - max_lines)
    ELSE buf

\* log_error: push_str(format!("[ERROR] {}\n", message)); limit_log_buffer()
log_error(buf, message) == limit_log_buffer(buf \o FormatError(message))

\* ----------------------------------------------------------------- records

\* The paths the user types into the add-project form: "r1" and "r2" are
\* git repositories with an origin remote, "no" is a repository without
\* origin, "nr" is no repository.
RepoPaths == {"r1", "r2"}

\* struct Project { path, name, notes }
Project(path, name, notes) == [path |-> path, name |-> name, notes |-> notes]

\* Project { path: "", name: "", notes: "" }
EmptyProject == Project("", "", "")

\* Repository::open(path).is_ok() when the add button is clicked
RepositoryOpens(path) == path \in RepoPaths \cup {"no"}

\* repo.find_remote("origin").is_ok() when the add button is clicked
HasOrigin(path) == path \in RepoPaths

\* Vec::remove(index) for an index in range
RemoveAt(s, i) == SubSeq(s, 1, i - 1) \o SubSeq(s, i + 1, Len(s))

\* vec![false; n]
AllFalse(n) == [i \in 1..n |-> FALSE]

\* ------------------------------------------------------ configuration file

\* The file is missing, holds text that is no JSON array of projects, or
\* holds a JSON array of objects; an object is a sequence of key/value pairs.
MissingFile == [kind |-> "missing", items |-> <<>>]
GarbageFile == [kind |-> "garbage", items |-> <<>>]

\* ToJsonObject with the notes field left out of the object.
ToJsonObjectNoNotes(p) == << <<"path", p.path>>, <<"name", p.name>> >>
\* #[derive(Serialize)] for Project: the fields in declaration order
ToJsonObject(p) == << <<"path", p.path>>, <<"name", p.name>>, <<"notes", p.notes>> >>

\* serde_json::to_string_pretty(&self.projects)
to_string_pretty(ps) ==
    [kind |-> "json", items |-> [i \in 1..Len(ps) |-> ToJsonObject(ps[i])]]

HasKey(obj, key) == \E i \in 1..Len(obj) : obj[i][1] = key
ValueOf(obj, key) == obj[CHOOSE i \in 1..Len(obj) : obj[i][1] = key][2]

\* #[derive(Deserialize)] for Project: every field is looked up by its key
FromJsonObject(obj) ==
    Project(ValueOf(obj, "path"), ValueOf(obj, "name"), ValueOf(obj, "notes"))

\* serde_json::from_str::<Vec<Project>>(&content).unwrap_or_default()
from_str_or_default(file) ==
    IF /\ file.kind = "json"
       /\ \A i \in 1..Len(file.items) :
            \A key \in {"path", "name", "notes"} : HasKey(file.items[i], key)
    THEN [i \in 1..Len(file.items) |-> FromJsonObject(file.items[i])]
    ELSE <<>>

\* App::default: the projects read from the configuration file
LoadProjects(file) ==
    IF file.kind = "missing" THEN <<>> ELSE from_str_or_default(file)

\* What std::fs::write does to the file: "ok" writes the text; it fails
\* before the file is created ("create_failed", the file is as it was) or
\* after it was truncated ("write_failed", the file holds a broken text).
WriteResults == {"ok", "create_failed", "write_failed"}

WriteFile(file, text, result) ==
    CASE result = "ok" -> text
      [] result = "create_failed" -> file
      [] OTHER -> GarbageFile

\* save_config: the file after it, for the result of std::fs::write
save_config(file, ps, result) == WriteFile(file, to_string_pretty(ps), result)

\* --------------------------------------------------------------------- git

\* A commit is the sequence of steps from the root commit to it, so that
\* a is an ancestor of b (or b itself) exactly when a is a prefix of b.
RootCommit == <<0>>
NoCommit == <<>>

IsAncestorOrEqual(a, b) == Len(a) <= Len(b) /\ SubSeq(b, 1, Len(a)) = a

\* A repository: the tip of master on the origin remote, FETCH_HEAD, the
\* local refs/heads/master, HEAD (a branch name, or "detached" at the commit
\* detached_at) and the commit the working tree holds.
MasterRef == "refs/heads/master"

HeadCommit(r) == IF r.head = MasterRef THEN r.master ELSE r.detached_at

\* repo.merge_analysis(&[&fetch_commit]): HEAD's commit against the fetched one
merge_analysis(r, fetch_commit) ==
    CASE IsAncestorOrEqual(fetch_commit, HeadCommit(r)) -> "up_to_date"
      [] IsAncestorOrEqual(HeadCommit(r), fetch_commit) -> "fast_forward"
      [] OTHER -> "normal"

\* remote.fetch(&["master"], None, None) succeeding: FETCH_HEAD is the tip of
\* origin's master
Fetch(r) == [r EXCEPT !.fetch_head = r.origin_master]

\* reference.set_target(fetch_commit.id(), "Fast-Forward")
set_target(r, commit) == [r EXCEPT !.master = commit]

\* repo.set_head("refs/heads/master")
set_head(r) == [r EXCEPT !.head = MasterRef, !.detached_at = NoCommit]

\* repo.checkout_head(Some(CheckoutBuilder::default().force()))
checkout_head(r) == [r EXCEPT !.worktree = HeadCommit(r)]

\* What one pass of the loop body of update_selected_projects leaves: the
\* repository, the outcome, the message pushed to log_messages, and whether
\* an unwrap() panicked.
StepResult(r, outcome, message) ==
    [repo |-> r, outcome |-> outcome, message |-> message, panicked |-> FALSE]
StepPanic(r) ==
    [repo |-> r, outcome |-> "Panic", message |-> <<>>, panicked |-> TRUE]

\* The git calls of the loop body, any one of which may fail.
GitCalls == {"open", "find_remote", "fetch", "find_fetch_head", "to_commit",
             "merge_analysis", "find_master", "set_target", "set_head",
             "checkout_head"}
Failures == GitCalls \cup {"none"}

\* The fast-forward branch of the loop body.
FastForward(r, fail) ==
    IF fail \in {"find_master", "set_target"}
    THEN StepPanic(r)
    ELSE IF fail = "set_head"
    THEN StepPanic(set_target(r, r.fetch_head))
    ELSE IF fail = "checkout_head"
    THEN StepPanic(set_head(set_target(r, r.fetch_head)))
    ELSE StepResult(checkout_head(set_head(set_target(r, r.fetch_head))),
                    "FastForwarded", <<"[INFO]", "updated">>)

\* Analyse with a conflict branch that moves the branch ref to the fetched
\* commit all the same.
AnalyseConflictMovesRef(r, fail) ==
    IF fail \in {"to_commit", "merge_analysis"}
    THEN StepPanic(r)
    ELSE CASE merge_analysis(r, r.fetch_head) = "up_to_date" ->
                StepResult(r, "UpToDate", <<"[INFO]", "up_to_date">>)
           [] merge_analysis(r, r.fetch_head) = "fast_forward" ->
                FastForward(r, fail)
           [] OTHER ->
                StepResult(set_target(r, r.fetch_head), "Conflict",
                           <<"[ERROR]", "conflict">>)

\* The branches on the merge analysis, after FETCH_HEAD was found.
Analyse(r, fail) ==
    IF fail \in {"to_commit", "merge_analysis"}
    THEN StepPanic(r)
    ELSE CASE merge_analysis(r, r.fetch_head) = "up_to_date" ->
                StepResult(r, "UpToDate", <<"[INFO]", "up_to_date">>)
           [] merge_analysis(r, r.fetch_head) = "fast_forward" ->
                FastForward(r, fail)
           [] OTHER ->
                StepResult(r, "Conflict", <<"[ERROR]", "conflict">>)

\* The loop body of update_selected_projects for one project: r is the
\* repository at the project's path, fail the git call that fails (or none).
SyncProject(r, fail) ==
    IF fail = "open"
    THEN StepResult(r, "RepositoryOpenFailed", <<"[ERROR]", "cannot_open">>)
    ELSE IF fail = "find_remote"
    THEN StepResult(r, "RemoteMissing", <<"[ERROR]", "no_origin">>)
    ELSE IF fail = "fetch"
    THEN StepResult(r, "FetchFailed", <<"[ERROR]", "fetch_failed">>)
    ELSE IF fail = "find_fetch_head"
    THEN StepResult(Fetch(r), "CorruptFetchHead", <<"[ERROR]", "fetch_head">>)
    ELSE Analyse(Fetch(r), fail)

\* The text of a log message: the message's kind and the project's name or
\* path that the format! puts into it.
MessageText(result, project) ==
    IF result.outcome = "RepositoryOpenFailed"
    THEN result.message \o <<project.path>>
    ELSE IF result.outcome = "FetchFailed"
    THEN result.message \o <<"e">>
    ELSE result.message \o <<project.name>>

\* completed_projects / total_projects as an f32: the quotient, in lowest
\* terms (two quotients of small integers are the same f32 exactly when they
\* are the same fraction).
RECURSIVE GCD(_, _)
GCD(a, b) == IF b = 0 THEN a ELSE GCD(b, a % b)
Quotient(k, n) == [num |-> k \div GCD(k, n), den |-> n \div GCD(k, n)]

\* progress: 0.0
ZeroProgress == [num |-> 0, den |-> 1]

\* ------------------------------------------------------------------- state

VARIABLES
    projects,           \* App.projects
    new_project,        \* App.new_project
    selected_projects,  \* App.selected_projects
    progress,           \* App.progress
    log_buffer,         \* App.log_buffer
    config_file,        \* the file at App.config_path
    repos,              \* the git repository at each path of RepoPaths
    pc,                 \* "running", "syncing" (inside the loop of
                        \* update_selected_projects) or "crashed" (panicked)
    sync,               \* the locals of update_selected_projects
    hist,               \* history: the last step taken and what it reported
    session             \* history: what happened since the process started

vars == <<projects, new_project, selected_projects, progress, log_buffer,
          config_file, repos, pc, sync, hist, session>>

\* The locals of update_selected_projects outside the handler.
NoSync == [selected |-> <<>>, pos |-> 0, completed |-> 0, total |-> 0,
           log_messages |-> <<>>]

\* The last step: its name; for the steps of update_selected_projects the
\* positions selected, the outcome of each project processed so far and the
\* values assigned to progress so far; for a restart the successful
\* registrations of the session it ended, for a log_error alone the number
\* of entries logged so far; for a step that reaches save_config whether
\* std::fs::write succeeded ("ok") or not ("failed").
Step(op) == [op |-> op, selected |-> <<>>, outcomes |-> <<>>, trace |-> <<>>,
             count |-> 0, wrote |-> "none"]

\* Since the process started: the successful registrations (0, 1, or 2 for
\* two and more).
NewSession == [adds |-> 0]

Wrote(result) == IF result = "ok" THEN "ok" ELSE "failed"

\* A repository as cloned: everything at the root commit, HEAD on master.
FreshRepo == [origin_master |-> RootCommit, fetch_head |-> NoCommit,
              master |-> RootCommit, head |-> MasterRef,
              detached_at |-> NoCommit, worktree |-> RootCommit]

\* The configuration files the process may find when it starts.
InitialFiles ==
    { MissingFile, GarbageFile,
      to_string_pretty(<<>>),
      to_string_pretty(<<Project("r1", "a", "")>>),
      [kind |-> "json", items |-> << <<<<"path", "r1">>, <<"name", "a">>>> >>] }

\* App::default
AppDefault(file) ==
    /\ projects' = LoadProjects(file)
    /\ new_project' = EmptyProject
    /\ selected_projects' = AllFalse(Len(LoadProjects(file)))
    /\ progress' = ZeroProgress
    /\ log_buffer' = <<>>

Init ==
    /\ config_file \in InitialFiles
    /\ projects = LoadProjects(config_file)
    /\ new_project = EmptyProject
    /\ selected_projects = AllFalse(Len(projects))
    /\ progress = ZeroProgress
    /\ log_buffer = <<>>
    /\ repos = [p \in RepoPaths |-> FreshRepo]
    /\ pc = "running"
    /\ sync = NoSync
    /\ hist = Step("init")
    /\ session = NewSession

\* A handler that writes to the log is taken only while the log is short.
LogHasRoom == lines_len(log_buffer) < MaxLogLines

\* ----------------------------------------------------------- add project

\* PushSelected with the push forgotten.
PushSelectedNothing(sel) == sel

\* self.selected_projects.push(false)
PushSelected(sel) == Append(sel, FALSE)

\* self.projects.push(self.new_project.clone())
PushProject(ps, p) == Append(ps, p)

\* AddResult with the check of the name forgotten.
AddResultPathOnly(p) ==
    IF p.path = "" THEN "empty_field"
    ELSE IF ~RepositoryOpens(p.path) THEN "not_a_repository"
    ELSE IF ~HasOrigin(p.path) THEN "no_origin"
    ELSE "added"

\* Which branch the add-project handler takes for the typed fields.
AddResult(p) ==
    IF p.path = "" \/ p.name = "" THEN "empty_field"
    ELSE IF ~RepositoryOpens(p.path) THEN "not_a_repository"
    ELSE IF ~HasOrigin(p.path) THEN "no_origin"
    ELSE "added"

\* The message the add-project handler logs on a failure.
AddMessage(p) ==
    CASE AddResult(p) = "empty_field" -> <<"empty_field">>
      [] AddResult(p) = "not_a_repository" -> <<"not_a_repository", p.path>>
      [] OTHER -> <<"no_origin", p.name>>

\* The user types path, name and notes and clicks the add button; result is
\* what std::fs::write does when save_config is reached.
AddProject(path, name, notes, result) ==
    LET typed == Project(path, name, notes) IN
    /\ pc = "running"
    /\ LogHasRoom
    /\ AddResult(typed) = "added" => Len(projects) < MaxProjects
    /\ IF AddResult(typed) = "added"
       THEN /\ projects' = PushProject(projects, typed)
            /\ selected_projects' = PushSelected(selected_projects)
            /\ new_project' = EmptyProject
            /\ config_file' = save_config(config_file, projects', result)
            /\ session' = [session EXCEPT !.adds = IF @ < 2 THEN @ + 1 ELSE @]
            /\ hist' = [Step(AddResult(typed)) EXCEPT !.wrote = Wrote(result)]
            /\ UNCHANGED log_buffer
       ELSE /\ result = "ok"
            /\ new_project' = typed
            /\ log_buffer' = log_error(log_buffer, AddMessage(typed))
            /\ hist' = Step(AddResult(typed))
            /\ UNCHANGED <<projects, selected_projects, config_file, session>>
    /\ UNCHANGED <<progress, repos, pc, sync>>

\* ------------------------------------------------------------- checkboxes

\* The checkbox of row i of the project list is clicked:
\* self.selected_projects[i] panics when the vector is shorter.
ToggleSelected(i) ==
    /\ pc = "running"
    /\ i \in 1..Len(projects)
    /\ IF i \in 1..Len(selected_projects)
       THEN /\ selected_projects' =
                  [selected_projects EXCEPT ![i] = ~selected_projects[i]]
            /\ pc' = pc
       ELSE /\ pc' = "crashed"
            /\ UNCHANGED selected_projects
    /\ hist' = Step("toggle")
    /\ UNCHANGED <<projects, new_project, progress, log_buffer, config_file,
                   repos, sync, session>>

\* ------------------------------------------------------------------ delete

\* The selected positions from position i on, the lowest first.
RECURSIVE IndicesAscending(_, _)
IndicesAscending(sel, i) ==
    IF i > Len(sel) THEN <<>>
    ELSE (IF sel[i] THEN <<i>> ELSE <<>>) \o IndicesAscending(sel, i + 1)

\* for (i, &selected) in self.selected_projects.iter().enumerate().rev():
\* the selected positions up to position i, the highest first
RECURSIVE IndicesDescending(_, _)
IndicesDescending(sel, i) ==
    IF i = 0 THEN <<>>
    ELSE (IF sel[i] THEN <<i>> ELSE <<>>) \o IndicesDescending(sel, i - 1)

indices_to_remove(sel) == IndicesDescending(sel, Len(sel))

\* for index in indices_to_remove { projects.remove(index);
\* selected_projects.remove(index) }: Vec::remove panics out of range
RECURSIVE RemoveAll(_, _, _)
RemoveAll(ps, sel, indices) ==
    IF indices = <<>>
    THEN [projects |-> ps, selected |-> sel, panicked |-> FALSE]
    ELSE IF Head(indices) > Len(ps) \/ Head(indices) > Len(sel)
    THEN [projects |-> ps, selected |-> sel, panicked |-> TRUE]
    ELSE RemoveAll(RemoveAt(ps, Head(indices)), RemoveAt(sel, Head(indices)),
                   Tail(indices))

\* RemoveSelected going through the selected positions the lowest first.
RemoveLowestFirst(ps, sel) == RemoveAll(ps, sel, IndicesAscending(sel, 1))

\* The removal loop of delete_selected_projects.
RemoveSelected(ps, sel) == RemoveAll(ps, sel, indices_to_remove(sel))

\* delete_selected_projects
DeleteSelected(result) ==
    LET removed == RemoveSelected(projects, selected_projects) IN
    /\ pc = "running"
    /\ projects' = removed.projects
    /\ selected_projects' = removed.selected
    /\ IF removed.panicked
       THEN /\ result = "ok"
            /\ pc' = "crashed"
            /\ hist' = [Step("delete") EXCEPT
                    !.selected = IndicesAscending(selected_projects, 1)]
            /\ UNCHANGED config_file
       ELSE /\ pc' = pc
            /\ config_file' = save_config(config_file, projects', result)
            /\ hist' = [Step("delete") EXCEPT
                    !.selected = IndicesAscending(selected_projects, 1),
                    !.wrote = Wrote(result)]
    /\ UNCHANGED <<new_project, progress, log_buffer, repos, sync, session>>

\* ------------------------------------------------- update selected projects

\* selected_projects.iter().enumerate().filter(..).map(..).collect()
selected_indices(sel) == IndicesAscending(sel, 1)

\* update_selected_projects up to the loop: the selected positions, the
\* total and the counters.
UpdateStart ==
    /\ pc = "running"
    /\ LogHasRoom
    /\ pc' = "syncing"
    /\ sync' = [selected |-> selected_indices(selected_projects), pos |-> 1,
                completed |-> 0,
                total |-> Len(selected_indices(selected_projects)),
                log_messages |-> <<>>]
    /\ hist' = [Step("update_start") EXCEPT
                    !.selected = selected_indices(selected_projects)]
    /\ UNCHANGED <<projects, new_project, selected_projects, progress,
                   log_buffer, config_file, repos, session>>

\* The progress after a pass of the loop.
ProgressAfter(completed, total) == Quotient(completed, total)

\* One pass of the loop: the project at the next selected position; fail is
\* the git call that fails in it.  A panic ends the process.
UpdateStep(fail) ==
    /\ pc = "syncing"
    /\ sync.pos <= Len(sync.selected)
    /\ LET index == sync.selected[sync.pos] IN
       IF index \in 1..Len(projects)
       THEN LET project == projects[index]
                result == SyncProject(repos[project.path], fail)
            IN  /\ repos' = [repos EXCEPT ![project.path] = result.repo]
                /\ hist' = [hist EXCEPT
                        !.op = "update_step",
                        !.outcomes = Append(@, result.outcome),
                        !.trace = IF result.panicked THEN @
                                  ELSE Append(@, ProgressAfter(sync.completed + 1,
                                                               sync.total))]
                /\ IF result.panicked
                   THEN /\ pc' = "crashed"
                        /\ UNCHANGED <<sync, progress>>
                   ELSE /\ pc' = pc
                        /\ sync' = [sync EXCEPT
                                !.pos = @ + 1,
                                !.completed = @ + 1,
                                !.log_messages =
                                    Append(@, MessageText(result, project))]
                        /\ progress' = ProgressAfter(sync.completed + 1, sync.total)
       ELSE /\ fail = "none"
            /\ sync' = [sync EXCEPT !.pos = @ + 1, !.completed = @ + 1]
            /\ progress' = ProgressAfter(sync.completed + 1, sync.total)
            /\ hist' = [hist EXCEPT
                    !.op = "update_step",
                    !.outcomes = Append(@, "Skipped"),
                    !.trace = Append(@, ProgressAfter(sync.completed + 1,
                                                      sync.total))]
            /\ UNCHANGED <<repos, pc>>
    /\ UNCHANGED <<projects, new_project, selected_projects, log_buffer,
                   config_file, session>>

\* for message in log_messages { log_buffer.push_str(format!("{}\n", message)) }
RECURSIVE PushLines(_, _)
PushLines(buf, messages) ==
    IF messages = <<>> THEN buf
    ELSE PushLines(buf \o FormatLine(Head(messages)), Tail(messages))

\* The selection flags after the loop that sets each to false.
ClearFlags(sel) == [i \in 1..Len(sel) |-> FALSE]

\* update_selected_projects after the loop: the messages go to the log, the
\* log is limited, the selection flags are cleared.
UpdateFinish ==
    /\ pc = "syncing"
    /\ sync.pos > Len(sync.selected)
    /\ log_buffer' = limit_log_buffer(PushLines(log_buffer, sync.log_messages))
    /\ selected_projects' = ClearFlags(selected_projects)
    /\ pc' = "running"
    /\ sync' = NoSync
    /\ hist' = [hist EXCEPT !.op = "update_done"]
    /\ UNCHANGED <<projects, new_project, progress, config_file, repos, session>>

\* --------------------------------------------------- save, exit and start

\* eframe::App::save: the periodic save of the application
Save(result) ==
    /\ pc = "running"
    /\ config_file' = save_config(config_file, projects, result)
    /\ hist' = [Step("save") EXCEPT !.wrote = Wrote(result)]
    /\ UNCHANGED <<projects, new_project, selected_projects, progress,
                   log_buffer, repos, pc, sync, session>>

\* The window is closed (on_exit: save_config) and the program is started
\* again (App::default).
Restart(result) ==
    /\ pc = "running"
    /\ config_file' = save_config(config_file, projects, result)
    /\ AppDefault(config_file')
    /\ hist' = [Step("restart") EXCEPT !.count = session.adds,
                                       !.wrote = Wrote(result)]
    /\ session' = NewSession
    /\ UNCHANGED <<repos, pc, sync>>

\* The program is started again after a panic ended it.
StartAfterPanic ==
    /\ pc = "crashed"
    /\ AppDefault(config_file)
    /\ pc' = "running"
    /\ sync' = NoSync
    /\ hist' = Step("start_after_panic")
    /\ session' = NewSession
    /\ UNCHANGED <<config_file, repos>>

\* The user empties the editable log area (text_edit_multiline on log_buffer).
ClearLog ==
    /\ pc = "running"
    /\ log_buffer # <<>>
    /\ log_buffer' = <<>>
    /\ hist' = Step("clear_log")
    /\ UNCHANGED <<projects, new_project, selected_projects, progress,
                   config_file, repos, pc, sync, session>>

\* ------------------------------------------------------------ environment

\* Someone pushes a commit to master on the origin remote of the repository.
UpstreamCommit(path) ==
    /\ pc # "syncing"
    /\ Len(repos[path].origin_master) <= MaxUpstream
    /\ repos' = [repos EXCEPT ![path].origin_master =
                    Append(@, Len(@))]
    /\ hist' = Step("upstream_commit")
    /\ UNCHANGED <<projects, new_project, selected_projects, progress,
                   log_buffer, config_file, pc, sync, session>>

\* The user commits on the checked-out master of the repository (commit 9 is
\* the local one).
LocalCommit(path) ==
    /\ pc # "syncing"
    /\ repos[path].head = MasterRef
    /\ repos[path].worktree = repos[path].master
    /\ \A i \in 1..Len(repos[path].master) : repos[path].master[i] # 9
    /\ repos' = [repos EXCEPT ![path].master = Append(@, 9),
                              ![path].worktree = Append(@, 9)]
    /\ hist' = Step("local_commit")
    /\ UNCHANGED <<projects, new_project, selected_projects, progress,
                   log_buffer, config_file, pc, sync, session>>

\* The user checks out the commit of HEAD directly (git checkout --detach).
DetachHead(path) ==
    /\ pc # "syncing"
    /\ repos[path].head = MasterRef
    /\ repos[path].worktree = repos[path].master
    /\ repos' = [repos EXCEPT ![path].head = "detached",
                              ![path].detached_at = repos[path].master]
    /\ hist' = Step("detach_head")
    /\ UNCHANGED <<projects, new_project, selected_projects, progress,
                   log_buffer, config_file, pc, sync, session>>

\* ---------------------------------------------------------- specifications

\* The whole application: every handler, with the smallest inputs, and
\* commits arriving on the origin of one repository.
Next ==
    \/ \E path \in {"", "r1"}, result \in {"ok", "create_failed"} :
          AddProject(path, "a", "", result)
    \/ \E i \in 1..Len(projects) : ToggleSelected(i)
    \/ \E result \in {"ok", "create_failed"} : DeleteSelected(result)
    \/ UpdateStart
    \/ \E fail \in {"none", "fetch", "set_head"} : UpdateStep(fail)
    \/ UpdateFinish
    \/ \E result \in {"ok", "create_failed"} : Restart(result)
    \/ StartAfterPanic
    \/ ClearLog
    \/ UpstreamCommit("r1")

Spec == Init /\ [][Next]_vars

\* The project store alone: registration, selection, deletion, saving and
\* restarting, with every input of the add-project form.
StoreFiles ==
    InitialFiles \cup
    { to_string_pretty(<<Project("r1", "a", ""), Project("r1", "a", "n"),
                         Project("r1", "a", "n"), Project("r1", "a", "")>>) }

InitStore ==
    /\ config_file \in StoreFiles
    /\ projects = LoadProjects(config_file)
    /\ new_project = EmptyProject
    /\ selected_projects = AllFalse(Len(projects))
    /\ progress = ZeroProgress
    /\ log_buffer = <<>>
    /\ repos = [p \in RepoPaths |-> FreshRepo]
    /\ pc = "running"
    /\ sync = NoSync
    /\ hist = Step("init")
    /\ session = NewSession

\* What the user types into the form: a registrable record with and without
\* notes, and each way to fail, the empty fields with and without notes.
TypedInputs ==
    { Project("r1", "a", ""), Project("r1", "a", "n"),
      Project("", "a", ""), Project("", "a", "n"),
      Project("r1", "", ""), Project("r1", "", "n"),
      Project("", "", ""), Project("nr", "a", ""), Project("no", "a", "") }

NextStore ==
    \/ \E typed \in TypedInputs, result \in WriteResults :
          AddProject(typed.path, typed.name, typed.notes, result)
    \/ \E i \in 1..Len(projects) : ToggleSelected(i)
    \/ \E result \in WriteResults : DeleteSelected(result)
    \/ \E result \in WriteResults : Save(result)
    \/ \E result \in WriteResults : Restart(result)
    \/ ClearLog

SpecStore == InitStore /\ [][NextStore]_vars

\* Updating alone: three registered projects, two of them on the same
\* repository, every failure of every git call, and the repositories
\* changing between the updates.
SyncProjects ==
    <<Project("r1", "a", ""), Project("r2", "a", ""), Project("r1", "a", "n")>>

InitSync ==
    /\ config_file = to_string_pretty(SyncProjects)
    /\ projects = LoadProjects(config_file)
    /\ new_project = EmptyProject
    /\ selected_projects = AllFalse(Len(projects))
    /\ progress = ZeroProgress
    /\ log_buffer = <<>>
    /\ repos = [p \in RepoPaths |-> FreshRepo]
    /\ pc = "running"
    /\ sync = NoSync
    /\ hist = Step("init")
    /\ session = NewSession

NextSync ==
    \/ \E i \in 1..Len(projects) : ToggleSelected(i)
    \/ UpdateStart
    \/ \E fail \in Failures : UpdateStep(fail)
    \/ UpdateFinish
    \/ StartAfterPanic
    \/ ClearLog
    \/ UpstreamCommit("r1")
    \/ LocalCommit("r1")
    \/ DetachHead("r1")

SpecSync == InitSync /\ [][NextSync]_vars

\* The log alone: log_error called with one single-line message after the
\* other, the n-th message being the text n.
LogError(n) ==
    /\ pc = "running"
    /\ hist.count = n - 1
    /\ log_buffer' = log_error(log_buffer, <<"entry", n>>)
    /\ hist' = [Step("log_error") EXCEPT !.count = n]
    /\ UNCHANGED <<projects, new_project, selected_projects, progress,
                   config_file, repos, pc, sync, session>>

NextLog == \E n \in 1..MaxEntries : LogError(n)

\* The program started without a configuration file.
InitLog == Init /\ config_file = MissingFile

SpecLog == InitLog /\ [][NextLog]_vars

\* ------------------------------------------------------------------ claims

\* The text of the n-th entry of the log-only specification.
EntryText(n) == <<"[ERROR]", "entry", n>>

\* The text that holds the entries first..last, one per line.
EntryLines(first, last) ==
    [i \in 1..(2 * (last - first + 1)) |->
        IF i % 2 = 1 THEN EntryText(first + (i - 1) \div 2) ELSE NL]

\* The text without the line break at its end, if it has one.
WithoutLastBreak(buf) ==
    IF Len(buf) > 0 /\ buf[Len(buf)] = NL THEN SubSeq(buf, 1, Len(buf) - 1) ELSE buf

\* C3: after M entries were appended one at a time with log_error, the log
\* holds exactly the last min(M, 1000) of them, each on a line of its own,
\* the oldest first.
C3_LogHoldsLastEntries ==
    hist.op = "log_error" =>
        WithoutLastBreak(log_buffer) =
            WithoutLastBreak(EntryLines(
                IF hist.count > max_lines THEN hist.count - max_lines + 1 ELSE 1,
                hist.count))

\* ---- the steps of update_selected_projects, as seen from a transition

\* The outcomes a project's update reports (a panic reports none).
SyncOutcomes == {"UpToDate", "FastForwarded", "Conflict", "FetchFailed",
                 "RemoteMissing", "RepositoryOpenFailed", "CorruptFetchHead"}
FailureOutcomes == SyncOutcomes \ {"UpToDate", "FastForwarded", "Conflict"}

Last(seq) == seq[Len(seq)]

\* The transition is one pass of the loop (UpdateStep).
IsUpdateStep == pc = "syncing" /\ hist'.op = "update_step"

\* The path of the project the pass is about.
StepPath == projects[sync.selected[sync.pos]].path

\* The local branch ref, HEAD and the working tree of a repository.
LocalState(r) == <<r.master, r.head, r.detached_at, r.worktree>>

IsStrictAncestor(a, b) == IsAncestorOrEqual(a, b) /\ a # b

\* The progress values of a complete update of n projects.
FullTrace(n) == [k \in 1..n |-> Quotient(k, n)]

\* C1: an update of the selected projects is never aborted by a project's
\* failure: no pass of the loop ends the process, every project processed
\* has one of the outcomes, and the handler ends having processed exactly
\* the selected projects, in order, with one log line each.
C1_BatchNeverAborted ==
    /\ hist.op \in {"update_step", "update_done"} =>
          /\ pc # "crashed"
          /\ \A k \in 1..Len(hist.outcomes) : hist.outcomes[k] \in SyncOutcomes
    /\ hist.op = "update_done" =>
          /\ Len(hist.outcomes) = Len(hist.selected)
          /\ lines_len(log_buffer) >= Len(hist.selected)

\* C2: an update of N >= 1 selected projects assigns to progress exactly
\* 1/N, 2/N, ..., N/N in this order, whatever the outcomes, and ends at 1.0;
\* an update of no project leaves progress as it was.
C2_ProgressSteps ==
    /\ [](/\ (hist.op = "update_done" /\ Len(hist.selected) >= 1) =>
                (hist.trace = FullTrace(Len(hist.selected))
                    /\ progress = Quotient(1, 1))
          /\ (hist.op = "update_step" /\ pc = "crashed") =>
                (hist.trace = FullTrace(Len(hist.selected))
                    /\ progress = Quotient(1, 1)))
    /\ [][(pc = "syncing" /\ sync.total = 0) => progress' = progress]_vars

\* An earlier pass of this update fast-forwarded the repository at path.
FastForwardedBefore(path) ==
    \E k \in 1..Len(hist.outcomes) :
        /\ hist.outcomes[k] = "FastForwarded"
        /\ projects[hist.selected[k]].path = path

\* C7: a pass of the loop that fetched, for a project whose local tip is a
\* strict ancestor of the fetched tip, ends with the fast-forward outcome and
\* the local tip equal to the fetched tip; a later pass of the same update
\* for the same repository (no new upstream commit) ends with up-to-date.
C7_FastForwardThenUpToDate ==
    [][(/\ IsUpdateStep
        /\ Last(hist'.outcomes) \notin FailureOutcomes)
       => LET before == repos[StepPath]
              after == repos'[StepPath]
          IN  /\ IsStrictAncestor(HeadCommit(before), before.origin_master) =>
                    /\ Last(hist'.outcomes) = "FastForwarded"
                    /\ HeadCommit(after) = before.origin_master
              /\ FastForwardedBefore(StepPath) =>
                    Last(hist'.outcomes) = "UpToDate"]_vars

\* C7 without the panics: the same, for the passes in which no unwrap()
\* panics.
C7_HoldsWithoutPanic ==
    [][(/\ IsUpdateStep
        /\ Last(hist'.outcomes) \in SyncOutcomes \ FailureOutcomes)
       => LET before == repos[StepPath]
              after == repos'[StepPath]
          IN  /\ IsStrictAncestor(HeadCommit(before), before.origin_master) =>
                    /\ Last(hist'.outcomes) = "FastForwarded"
                    /\ HeadCommit(after) = before.origin_master
              /\ FastForwardedBefore(StepPath) =>
                    Last(hist'.outcomes) = "UpToDate"]_vars

\* C8: a pass of the loop that ends with up-to-date, with conflict or with
\* any other outcome than fast-forward leaves the local branch ref, HEAD and
\* the working tree of every repository as they were.
C8_OnlyFastForwardMutates ==
    [][(/\ IsUpdateStep
        /\ Last(hist'.outcomes) \in SyncOutcomes \ {"FastForwarded"})
       => \A path \in RepoPaths :
              LocalState(repos'[path]) = LocalState(repos[path])]_vars

\* A batch with an up-to-date and a conflict outcome has ended.
C8_Witness ==
    /\ hist.op = "update_done"
    /\ \E i, j \in 1..Len(hist.outcomes) :
          hist.outcomes[i] = "UpToDate" /\ hist.outcomes[j] = "Conflict"

\* C9: a fast-forward is atomic: a pass of the loop either moves the branch
\* ref, HEAD and the working tree to the fetched commit, all three, or
\* changes none of them (and then reports no fast-forward); no pass moves
\* the branch ref and leaves set-head or the checkout undone.
C9_FastForwardAtomic ==
    [][IsUpdateStep
       => LET before == repos[StepPath]
              after == repos'[StepPath]
          IN  \/ /\ after.master = after.fetch_head
                 /\ after.head = MasterRef
                 /\ after.worktree = after.fetch_head
              \/ /\ LocalState(after) = LocalState(before)
                 /\ Last(hist'.outcomes) # "FastForwarded"]_vars

\* ---- the project store

\* The records at the positions that are not selected, in their order.
RECURSIVE KeepUnselected(_, _, _)
KeepUnselected(ps, sel, i) ==
    IF i > Len(ps) THEN <<>>
    ELSE (IF sel[i] THEN <<>> ELSE <<ps[i]>>) \o KeepUnselected(ps, sel, i + 1)

\* The transition is delete_selected_projects.
IsDeleteStep == pc = "running" /\ hist'.op = "delete"

\* C4 as stated: deleting removes exactly the records at the selected
\* positions, keeps the others in their order, and the configuration file
\* then holds the resulting list.
C4_DeleteThenPersisted ==
    [][IsDeleteStep
       => /\ projects' = KeepUnselected(projects, selected_projects, 1)
          /\ LoadProjects(config_file') = projects']_vars

\* C4, amended: deleting removes exactly the records at the selected
\* positions and keeps the others in their order; the resulting list is
\* written to the configuration file, which holds it when the write
\* succeeds and is as it was or broken when the write fails.
C4_DeleteThenSaved ==
    [][IsDeleteStep
       => /\ pc' = "running"
          /\ projects' = KeepUnselected(projects, selected_projects, 1)
          /\ Len(selected_projects') = Len(projects')
          /\ hist'.wrote = "ok" =>
                /\ config_file'.kind = "json"
                /\ LoadProjects(config_file') = projects'
          /\ hist'.wrote # "ok" =>
                config_file' \in {config_file, GarbageFile}]_vars

\* The positions 2 and 4 of four records were deleted (1 and 3, counted from
\* 0), the records at 1 and 3 (0 and 2) are left and the file holds them.
C4_Witness ==
    /\ hist.op = "delete"
    /\ hist.selected = <<2, 4>>
    /\ projects = <<Project("r1", "a", ""), Project("r1", "a", "n")>>
    /\ LoadProjects(config_file) = projects
    /\ hist.wrote = "ok"

\* The transition is the add-project handler.
IsAddStep ==
    /\ pc = "running"
    /\ hist'.op \in {"added", "empty_field", "not_a_repository", "no_origin"}

\* The record may be registered: both fields typed, a repository with origin.
Registrable(p) ==
    /\ p.path # "" /\ p.name # ""
    /\ RepositoryOpens(p.path)
    /\ HasOrigin(p.path)

\* C5: a registration that fails (empty path or name whatever the notes, no
\* repository at the path, no origin remote) leaves the projects and the
\* file as they were; a record is appended, at the end, only when it is
\* registrable; and the empty-field message comes before the others.
C5_FailedRegistrationChangesNothing ==
    [][IsAddStep
       => \/ /\ projects' = projects
             /\ selected_projects' = selected_projects
             /\ config_file' = config_file
             /\ ~Registrable(new_project')
             /\ Len(log_buffer') >= 2
             /\ (new_project'.path = "" \/ new_project'.name = "")
                    <=> log_buffer'[Len(log_buffer') - 1] = <<"[ERROR]", "empty_field">>
          \/ /\ Len(projects') = Len(projects) + 1
             /\ SubSeq(projects', 1, Len(projects)) = projects
             /\ Registrable(Last(projects'))
             /\ log_buffer' = log_buffer]_vars

\* A registration with a repository's path, notes and no name failed, and
\* the project registered before it is all the store and the file hold.
C5_Witness ==
    /\ hist.op = "empty_field"
    /\ new_project = Project("r1", "", "n")
    /\ Len(projects) = 1
    /\ LoadProjects(config_file) = projects

\* The transition closes the window and starts the program again.
IsRestart == pc = "running" /\ hist'.op = "restart"

\* C6 as stated: after successful registrations and a restart the reloaded
\* projects are the registered ones, in their order.
C6_ReloadedAfterRegistrations ==
    [][(IsRestart /\ session.adds >= 1) => projects' = projects]_vars

\* C6, amended: after successful registrations and a restart the reloaded
\* projects are the ones held before it, in their order, provided the write
\* of the configuration file made on exit succeeded.
C6_ReloadedWhenWritten ==
    [][(IsRestart /\ hist'.wrote = "ok") => projects' = projects]_vars

\* Two records were registered, the program was restarted and holds them.
C6_Witness ==
    /\ hist.op = "restart"
    /\ hist.count = 2
    /\ hist.wrote = "ok"
    /\ projects = <<Project("r1", "a", "n"), Project("r1", "a", "")>>

\* C10: the selection flags are as many as the projects in every state, so
\* that no checkbox and no deletion reaches a position out of range (no
\* panic in them), an update clears every flag, and no step of an update
\* changes the projects.
C10_FlagsMatchProjects ==
    /\ [](/\ Len(selected_projects) = Len(projects)
          /\ hist.op \in {"delete", "toggle"} => pc # "crashed"
          /\ hist.op = "update_done" =>
                \A i \in 1..Len(selected_projects) : ~selected_projects[i])
    /\ [][(pc = "syncing" \/ pc' = "syncing") => projects' = projects]_vars

\* An update of a selected project has ended in a session with two
\* registrations and a deletion (one project is left).
C10_Witness ==
    /\ hist.op = "update_done"
    /\ Len(hist.selected) = 1
    /\ session.adds = 2
    /\ Len(projects) = 1

====
